---------------------------- MODULE Spec2Model ----------------------------
(***************************************************************************)
(* SearchEngine of src/search.cpp: BuildIndex builds a per-line TF-IDF     *)
(* relevance table from a text, Search ranks the lines against a query.    *)
(*                                                                         *)
(* A text, a line and a word are sequences of one-character strings (the   *)
(* contents of a std::string_view).  Positions are the code's zero-based   *)
(* size_t values; element i of a vector v is v[i + 1] here.                *)
(*                                                                         *)
(* Numbers.  A double that holds a term frequency count/size is the        *)
(* fraction [num |-> count, den |-> size]; an idf, a relevance or a score  *)
(* is an integer number of score units, one unit being 0.8e-9.  The        *)
(* product of a term frequency and an idf is rounded down to a whole unit; *)
(* on the texts of Spec no rounding happens, every product and sum is      *)
(* exact, equal real values are equal integers and the test == 0.0 is      *)
(* exact.  The code's tolerance test |x - y| < 1e-9, that is               *)
(* |x - y| < 1.25 units, is |x - y| < ERROR with ERROR = 2 on integers.    *)
(***************************************************************************)
EXTENDS Integers, Sequences, FiniteSets

VARIABLES
    built,                      \* "no" before the first BuildIndex; then how the
                                \* text of the index is given: "text" or "counts"
    text,                       \* the argument of the last BuildIndex
    lines_,                     \* std::vector<std::string_view> lines_
    text_words_,                \* std::set<std::string_view, Comp> text_words_
    ignore_list_,               \* std::set<size_t> ignore_list_
    words_relevance_in_lines_,  \* std::unordered_map<string_view, vector<double>>
    op,                         \* the last call: "new", "BuildIndex", "Search", ...
    query,                      \* the arguments of the last Search
    results_count,
    lines_relevance,            \* Search's local vector, as std::sort left it
    result,                     \* what the last Search returned
    oob                         \* the out-of-range vector indices the last call used

vars == <<built, text, lines_, text_words_, ignore_list_, words_relevance_in_lines_,
          op, query, results_count, lines_relevance, result, oob>>

----------------------------------------------------------------------------
(* Bounds of the model.                                                    *)

\* lines joined into a text of BuildIndex
MaxLines == 3
\* length of the texts enumerated character by character
MaxRawLen == 2
\* largest results_count passed to Search
MaxTopK == 2
\* long lines of a text given by token counts (SpecLong)
MaxLongLines == 3

----------------------------------------------------------------------------
(* Characters: <cctype> in the "C" locale, on the characters used.         *)

Code(c) ==
    CASE c = "\n" -> 10  [] c = " " -> 32  [] c = "1" -> 49  [] c = "!" -> 33
      [] c = "A" -> 65   [] c = "C" -> 67
      [] c = "a" -> 97   [] c = "b" -> 98  [] c = "c" -> 99  [] c = "d" -> 100
      [] c = "g" -> 103  [] c = "n" -> 110 [] c = "o" -> 111 [] c = "r" -> 114
      [] c = "s" -> 115  [] c = "t" -> 116

isalpha(c) == Code(c) \in 65..90 \/ Code(c) \in 97..122

tolower(c) == IF Code(c) \in 65..90 THEN Code(c) + 32 ELSE Code(c)

\* std::string_view::npos
npos == -1

\* std::string_view::size
size(str) == Len(str)

\* std::string_view::substr(pos, count); count = npos takes the rest
substr(str, pos, count) ==
    IF count = npos \/ pos + count > Len(str)
    THEN SubSeq(str, pos + 1, Len(str))
    ELSE SubSeq(str, pos + 1, pos + count)

\* std::string_view::find(ch, pos)
find(str, ch, pos) ==
    LET hits == {i \in pos..(Len(str) - 1) : str[i + 1] = ch}
    IN  IF hits = {} THEN npos ELSE CHOOSE i \in hits : \A j \in hits : i <= j

Min(a, b) == IF a < b THEN a ELSE b

Abs(x) == IF x < 0 THEN -x ELSE x

----------------------------------------------------------------------------
(* struct Comp: case-insensitive lexicographic "less".                     *)

Comp(lhs, rhs) ==
    LET n == Min(size(lhs), size(rhs))
        diff == {i \in 0..(n - 1) : tolower(lhs[i + 1]) # tolower(rhs[i + 1])}
    IN  IF diff # {}
        THEN LET i == CHOOSE k \in diff : \A j \in diff : k <= j
             IN  tolower(lhs[i + 1]) < tolower(rhs[i + 1])
        ELSE size(lhs) < size(rhs)

\* equivalence of two keys of a std::set<std::string_view, Comp>
Equiv(a, b) == ~Comp(a, b) /\ ~Comp(b, a)

\* std::set<std::string_view, Comp>::insert on the set held as the sequence of
\* its elements in Comp order: an equivalent element already present is kept.
SetInsert(s, w) ==
    IF \E i \in 1..Len(s) : Equiv(s[i], w)
    THEN s
    ELSE LET k == Cardinality({i \in 1..Len(s) : Comp(s[i], w)})
         IN  SubSeq(s, 1, k) \o <<w>> \o SubSeq(s, k + 1, Len(s))

\* std::set<std::string_view, Comp>::find: the index of the element equivalent
\* to w, 0 for end()
SetFind(s, w) ==
    IF \E i \in 1..Len(s) : Equiv(s[i], w)
    THEN CHOOSE i \in 1..Len(s) : Equiv(s[i], w)
    ELSE 0

----------------------------------------------------------------------------
(* The tokenizers.                                                         *)

RECURSIVE SkipNonAlpha(_, _)
\* while (start_pos < str.size() && !std::isalpha(str[start_pos])) ++start_pos;
SkipNonAlpha(str, start_pos) ==
    IF start_pos < size(str) /\ ~isalpha(str[start_pos + 1])
    THEN SkipNonAlpha(str, start_pos + 1)
    ELSE start_pos

RECURSIVE SkipAlpha(_, _)
\* while (finish_pos < str.size() && std::isalpha(str[finish_pos])) ++finish_pos;
SkipAlpha(str, finish_pos) ==
    IF finish_pos < size(str) /\ isalpha(str[finish_pos + 1])
    THEN SkipAlpha(str, finish_pos + 1)
    ELSE finish_pos

RECURSIVE WordsLoop(_, _, _)
\* the outer while loop of GetWordsFromStringView
WordsLoop(str, start_pos, res) ==
    IF ~(start_pos < size(str)) THEN res
    ELSE LET s == SkipNonAlpha(str, start_pos)
         IN  IF s = size(str) THEN res
             ELSE LET f == SkipAlpha(str, s + 1)
                  IN  IF f = size(str)
                      THEN Append(res, substr(str, s, npos))
                      ELSE WordsLoop(str, f + 1, Append(res, substr(str, s, f - s)))

GetWordsFromStringView(str) == WordsLoop(str, 0, <<>>)

RECURSIVE UniqueWordsLoop(_, _, _)
\* the outer while loop of GetUniqueWordsFromStringView
UniqueWordsLoop(str, start_pos, res) ==
    IF ~(start_pos < size(str)) THEN res
    ELSE LET s == SkipNonAlpha(str, start_pos)
         IN  IF s = size(str) THEN res
             ELSE LET f == SkipAlpha(str, s + 1)
                  IN  IF f = size(str)
                      THEN SetInsert(res, substr(str, s, npos))
                      ELSE UniqueWordsLoop(str, f + 1,
                                           SetInsert(res, substr(str, s, f - s)))

GetUniqueWordsFromStringView(str) == UniqueWordsLoop(str, 0, <<>>)

RECURSIVE LinesLoop(_, _, _)
\* one pass of the do ... while (start_pos < text.size()) of GetLinesFromText;
\* continue jumps to the loop condition
LinesLoop(txt, start_pos, res) ==
    LET finish_pos == find(txt, "\n", start_pos)
    IN  IF finish_pos = start_pos
        THEN IF start_pos + 1 < size(txt)
             THEN LinesLoop(txt, start_pos + 1, res)
             ELSE res
        ELSE IF finish_pos = npos
        THEN Append(res, substr(txt, start_pos, npos))
        ELSE IF finish_pos + 1 < size(txt)
             THEN LinesLoop(txt, finish_pos + 1,
                            Append(res, substr(txt, start_pos, finish_pos - start_pos)))
             ELSE Append(res, substr(txt, start_pos, finish_pos - start_pos))

GetLinesFromText(txt) == LinesLoop(txt, 0, <<>>)

----------------------------------------------------------------------------
(* Numbers.                                                                *)

\* const long double ERROR = 1e-9: 1.25 score units; an integer difference is
\* below 1.25 exactly when it is below 2
ERROR == 2

\* ln 2, ln 3 and ln 5 in score units of 0.8e-9, to the nearest multiple of 12
\* (so that a term frequency with 1, 2, 3 or 4 tokens divides them exactly)
LnTwo == 866433972
LnThree == 1373265360
LnFive == 2011797396

\* ln k for the line counts of this model
LnInt(k) ==
    CASE k = 1 -> 0
      [] k = 2 -> LnTwo
      [] k = 3 -> LnThree
      [] k = 4 -> 2 * LnTwo
      [] k = 5 -> LnFive

\* std::log(static_cast<double>(n) / d)
log(n, d) == LnInt(n) - LnInt(d)

\* the double product tf * idf of a term frequency and an idf: num * idf / den
\* rounded down to a whole score unit
Times(tf, idf) ==
    (idf \div tf.den) * tf.num + ((idf % tf.den) * tf.num) \div tf.den

\* What a read past the end of a std::vector<double> may yield: undefined
\* behaviour, any bit pattern.  Three values stand for it: as a relevance
\* -1, 0 and 1 score units, as a term frequency -1/12, 0 and 1/12.
Garbage == {-1, 0, 1}

GarbageTf(g) == [num |-> g, den |-> 12]

\* v[i] of a std::vector<double> v; g is what an out-of-range read yields
VecRead(v, i, g) == IF i < Len(v) THEN v[i + 1] ELSE g

Range(s) == {s[i] : i \in 1..Len(s)}

RECURSIVE SumSeq(_)
SumSeq(s) == IF s = <<>> THEN 0 ELSE s[1] + SumSeq(Tail(s))

\* an empty std::unordered_map
EmptyMap == [w \in {} |-> <<>>]

\* the positions i in 0..n-1 that are not in the ignore list, ascending: the
\* values i for which the body of a loop with the ignore_list_ test runs
NonIgnored(n, ignore) ==
    LET S == {i \in 0..(n - 1) : i \notin ignore}
    IN  [j \in 1..Cardinality(S) |->
            CHOOSE i \in S : Cardinality({k \in S : k < i}) = j - 1]

----------------------------------------------------------------------------
(* BuildIndex.                                                             *)

\* GetTFOfWordsInLine without the division by words_in_line.size(): the count
\* of the keyword in the line
GetTFOfWordsInLineNoDivision(words_in_line, keywords) ==
    [w \in Range(keywords) |->
        [num |-> Cardinality({k \in 1..Len(words_in_line) :
                                LET it == SetFind(keywords, words_in_line[k])
                                IN  it # 0 /\ keywords[it] = w}),
         den |-> 1]]

\* GetTFOfWordsInLine: keyword -> (number of tokens of the line that find()
\* maps to the keyword) / words_in_line.size()
GetTFOfWordsInLine(words_in_line, keywords) ==
    [w \in Range(keywords) |->
        [num |-> Cardinality({k \in 1..Len(words_in_line) :
                                LET it == SetFind(keywords, words_in_line[k])
                                IN  it # 0 /\ keywords[it] = w}),
         den |-> Len(words_in_line)]]

\* lines 46-52: the ignore list
IgnoreList(words_in_lines) ==
    {i \in 0..(Len(words_in_lines) - 1) : words_in_lines[i + 1] = <<>>}

\* lines 57-70: word -> the TF of the word in each non-ignored line, appended
\* in line order (one entry per non-ignored line)
WordTfInLine(words_in_lines, ignore, keywords) ==
    LET scored == NonIgnored(Len(words_in_lines), ignore)
    IN  [w \in Range(keywords) |->
            [j \in 1..Len(scored) |->
                GetTFOfWordsInLine(words_in_lines[scored[j] + 1], keywords)[w]]]

\* lines 66-76: word -> idf; the count of lines with a non-zero TF, then
\* log(lines_.size() / count) when the count is not 0
WordIdf(word_tf_in_line, nlines) ==
    [w \in DOMAIN word_tf_in_line |->
        LET df == Cardinality({j \in 1..Len(word_tf_in_line[w]) :
                                  word_tf_in_line[w][j].num # 0})
        IN  IF df # 0 THEN log(nlines, df) ELSE 0]

\* line 84: word_tf_in_line[word][i] * word_idf[word], i the line's position
\* among all lines
RelevanceAt(word_tf_in_line, word_idf, word, i, g) ==
    Times(VecRead(word_tf_in_line[word], i, GarbageTf(g)), word_idf[word])

\* lines 78-86: word -> the relevance of each non-ignored line, appended in
\* line order
WordsRelevance(word_tf_in_line, word_idf, nlines, ignore, g) ==
    LET scored == NonIgnored(nlines, ignore)
    IN  [w \in (IF Len(scored) = 0 THEN {} ELSE DOMAIN word_tf_in_line) |->
            [j \in 1..Len(scored) |->
                RelevanceAt(word_tf_in_line, word_idf, w, scored[j], g)]]

\* the indices line 84 uses that are not below the size of the vector indexed
BuildOob(word_tf_in_line, nlines, ignore) ==
    LET scored == NonIgnored(nlines, ignore)
    IN  {scored[j] : j \in {k \in 1..Len(scored) :
                              \E w \in DOMAIN word_tf_in_line :
                                  ~(scored[k] < Len(word_tf_in_line[w]))}}

\* lines 72-86 and the members BuildIndex leaves, from the lines, the
\* vocabulary, the ignore list and word_tf_in_line; with the out-of-range
\* indices used, g being what the out-of-range reads yielded
IndexOf(lines, words, ignore, word_tf_in_line, g) ==
    [lines_ |-> lines,
     text_words_ |-> words,
     ignore_list_ |-> ignore,
     words_relevance_in_lines_ |->
         WordsRelevance(word_tf_in_line, WordIdf(word_tf_in_line, Len(lines)),
                        Len(lines), ignore, g),
     oob |-> BuildOob(word_tf_in_line, Len(lines), ignore)]

\* BuildIndex(text)
BuildIndex(txt, g) ==
    LET lines == GetLinesFromText(txt)
        words == GetUniqueWordsFromStringView(txt)
        words_in_lines == [i \in 1..Len(lines) |-> GetWordsFromStringView(lines[i])]
        ignore == IgnoreList(words_in_lines)
    IN  IndexOf(lines, words, ignore, WordTfInLine(words_in_lines, ignore, words), g)

\* every state BuildIndex(text) can leave
BuildOutcomes(txt) == {BuildIndex(txt, g) : g \in Garbage}

----------------------------------------------------------------------------
(* Search.                                                                 *)

\* lines 104-110: the sum over the query words found in the relevance table
\* (std::unordered_map::find: equality of the characters) of it->second[i]
LineRelevance(relevance_table, query_words, i, g) ==
    SumSeq([k \in 1..Len(query_words) |->
               IF query_words[k] \in DOMAIN relevance_table
               THEN VecRead(relevance_table[query_words[k]], i, g)
               ELSE 0])

\* lines 99-113 without the ignore_list_ test: every line is scored
LinesRelevanceNoSkip(relevance_table, nlines, ignore, query_words, g) ==
    [j \in 1..nlines |->
        [relevance |-> LineRelevance(relevance_table, query_words, j - 1, g),
         pos |-> j - 1]]

\* lines 99-113: lines_relevance before the sort
LinesRelevance(relevance_table, nlines, ignore, query_words, g) ==
    LET scored == NonIgnored(nlines, ignore)
    IN  [j \in 1..Len(scored) |->
            [relevance |-> LineRelevance(relevance_table, query_words, scored[j], g),
             pos |-> scored[j]]]

\* the indices line 108 uses that are not below the size of the vector indexed
SearchOob(relevance_table, nlines, ignore, query_words) ==
    LET scored == NonIgnored(nlines, ignore)
    IN  {scored[j] : j \in {k \in 1..Len(scored) :
                              \E m \in 1..Len(query_words) :
                                  /\ query_words[m] \in DOMAIN relevance_table
                                  /\ ~(scored[k] < Len(relevance_table[query_words[m]]))}}

\* the comparison lambda with the tie-break turned round: of two scores within
\* the tolerance the later line ranks first
RelevanceLessLaterFirst(lhs, rhs) ==
    IF Abs(lhs.relevance - rhs.relevance) < ERROR
    THEN lhs.pos < rhs.pos
    ELSE lhs.relevance < rhs.relevance

\* the comparison lambda of lines 116-122
RelevanceLess(lhs, rhs) ==
    IF Abs(lhs.relevance - rhs.relevance) < ERROR
    THEN rhs.pos < lhs.pos
    ELSE lhs.relevance < rhs.relevance

Reverse(s) == [i \in 1..Len(s) |-> s[Len(s) + 1 - i]]

RECURSIVE Orders(_)
\* the sequences that hold every element of S once
Orders(S) ==
    IF S = {} THEN {<<>>}
    ELSE UNION {{<<x>> \o p : p \in Orders(S \ {x})} : x \in S}

\* the vectors that hold the elements of v in some order
Permutations(v) == {[i \in 1..Len(v) |-> v[p[i]]] : p \in Orders(1..Len(v))}

\* the comparison is a strict weak ordering of the elements of v, which
\* std::sort requires
StrictWeakOrdering(v) ==
    LET E == Range(v)
        incomparable(x, y) == ~RelevanceLess(x, y) /\ ~RelevanceLess(y, x)
    IN  /\ \A x \in E : ~RelevanceLess(x, x)
        /\ \A x, y, z \in E :
               RelevanceLess(x, y) /\ RelevanceLess(y, z) => RelevanceLess(x, z)
        /\ \A x, y, z \in E :
               incomparable(x, y) /\ incomparable(y, z) => incomparable(x, z)

\* r is sorted by the comparison: no element is less than an earlier one
IsSorted(r) == \A i, j \in 1..Len(r) : i < j => ~RelevanceLess(r[j], r[i])

\* std::sort(v.rbegin(), v.rend(), RelevanceLess): the vectors it can leave.
\* The reversed vector is sorted; a comparison that is no strict weak ordering
\* is undefined behaviour, which may leave the elements in any order.
StdSortReversed(v) ==
    IF StrictWeakOrdering(v)
    THEN {s \in Permutations(v) : IsSorted(Reverse(s))}
    ELSE Permutations(v)

\* lines 124-130: how many leading entries the loop copies
CopiedCount(sorted, count) ==
    CHOOSE c \in 0..Len(sorted) :
        /\ \A i \in 0..(c - 1) : ~(i >= count \/ sorted[i + 1].relevance = 0)
        /\ c = Len(sorted) \/ c >= count \/ sorted[c + 1].relevance = 0

\* lines 115-132: sort, copy, return
RankAndCopy(unsorted, count, lines) ==
    {[lines_relevance |-> s,
      result |-> [i \in 1..CopiedCount(s, count) |-> lines[s[i].pos + 1]]] :
        s \in StdSortReversed(unsorted)}

\* a Search that filters nothing: it ranks every line, ignored or not, and
\* returns the first results_count of them whatever their relevance
SearchUnfiltered(lines, ignore, relevance_table, q, count) ==
    IF count = 0 \/ lines = <<>>
    THEN {[lines_relevance |-> <<>>, result |-> <<>>, oob |-> {}]}
    ELSE LET query_words == GetUniqueWordsFromStringView(q)
             unsorted == LinesRelevanceNoSkip(relevance_table, Len(lines), ignore,
                                              query_words, 0)
         IN  {[lines_relevance |-> s,
               result |-> [i \in 1..Min(count, Len(s)) |-> lines[s[i].pos + 1]],
               oob |-> {}] : s \in StdSortReversed(unsorted)}

\* Search(query, results_count) on the given members: what it can return, with
\* the sorted lines_relevance and the out-of-range indices it used
Search(lines, ignore, relevance_table, q, count) ==
    IF count = 0 \/ lines = <<>>
    THEN {[lines_relevance |-> <<>>, result |-> <<>>, oob |-> {}]}
    ELSE LET query_words == GetUniqueWordsFromStringView(q)
             bad == SearchOob(relevance_table, Len(lines), ignore, query_words)
         IN  {[lines_relevance |-> r.lines_relevance, result |-> r.result, oob |-> bad] :
                r \in UNION {RankAndCopy(LinesRelevance(relevance_table, Len(lines),
                                                        ignore, query_words, g),
                                         count, lines) :
                                g \in (IF bad = {} THEN {0} ELSE Garbage)}}

----------------------------------------------------------------------------
(* The inputs.                                                             *)

Join(first, second) == first \o <<"\n">> \o second

\* the lines that texts are joined from
LinePool == {<<"a">>, <<"b">>, <<"1">>, <<"A", "1", "b">>}

RECURSIVE JoinedTexts(_)
\* the texts of at most n lines of the pool, joined by newlines
JoinedTexts(n) ==
    IF n = 1 THEN LinePool
    ELSE JoinedTexts(n - 1) \cup
         {Join(t, l) : t \in JoinedTexts(n - 1), l \in LinePool}

\* every text of at most MaxRawLen of these characters
RawTexts == UNION {[1..k -> {"a", "1", "\n"}] : k \in 0..MaxRawLen}

ExampleText ==
    <<"c", "a", "t", " ", "s", "a", "t", "\n",
      "d", "o", "g", " ", "r", "a", "n", "\n",
      "c", "a", "t", " ", "c", "a", "t", " ", "c", "a", "t">>

Texts == RawTexts \cup JoinedTexts(MaxLines) \cup {ExampleText}

Queries ==
    {<<>>, <<"a">>, <<"A">>, <<"b">>, <<"a", "1", "b">>, <<"a", " ", "A">>,
     <<"c", "a", "t">>}

\* text -> the states BuildIndex(text) can leave
BuildTable == [t \in Texts |-> BuildOutcomes(t)]

----------------------------------------------------------------------------
(* The engine.                                                             *)

Init ==
    /\ built = "no"
    /\ text = <<>>
    /\ lines_ = <<>>
    /\ text_words_ = <<>>
    /\ ignore_list_ = {}
    /\ words_relevance_in_lines_ = EmptyMap
    /\ op = "new"
    /\ query = <<>>
    /\ results_count = 0
    /\ lines_relevance = <<>>
    /\ result = <<>>
    /\ oob = {}

BuildIndexCall ==
    \E t \in Texts : \E b \in BuildTable[t] :
        /\ built' = "text"
        /\ text' = t
        /\ lines_' = b.lines_
        /\ text_words_' = b.text_words_
        /\ ignore_list_' = b.ignore_list_
        /\ words_relevance_in_lines_' = b.words_relevance_in_lines_
        /\ oob' = b.oob
        /\ op' = "BuildIndex"
        /\ query' = <<>>
        /\ results_count' = 0
        /\ lines_relevance' = <<>>
        /\ result' = <<>>

SearchCall ==
    \E q \in Queries : \E k \in 0..MaxTopK :
        \E s \in Search(lines_, ignore_list_, words_relevance_in_lines_, q, k) :
            /\ op' = "Search"
            /\ query' = q
            /\ results_count' = k
            /\ lines_relevance' = s.lines_relevance
            /\ result' = s.result
            /\ oob' = s.oob
            /\ UNCHANGED <<built, text, lines_, text_words_, ignore_list_,
                           words_relevance_in_lines_>>

Next == BuildIndexCall \/ SearchCall

Spec == Init /\ [][Next]_vars
----------------------------------------------------------------------------
(* Texts with long lines.  Two scores of different lines come within the   *)
(* tolerance of each other only when the lines have tens of thousands of   *)
(* tokens, too many to write out.  Such a text is given by its lines'      *)
(* token counts: the line [a |-> c, size |-> n] is c tokens "a" followed   *)
(* by n - c tokens "b", separated by spaces.  LongInit is the engine after *)
(* BuildIndex of the text of k long lines with one "a" each, followed by   *)
(* the line "b": the vocabulary is a, b, no line is ignored, and           *)
(* word_tf_in_line holds c / n and (n - c) / n, as GetTFOfWordsInLine      *)
(* computes them from the tokens.                                          *)

\* the number of tokens of the shortest long line
LongSize == 22520

LongLines == {[a |-> 1, size |-> LongSize + d] : d \in 0..2}

\* the texts of 1..MaxLongLines long lines and a last line "b"
LongTexts ==
    {Append(t, [a |-> 0, size |-> 1]) :
        t \in UNION {[1..k -> LongLines] : k \in 1..MaxLongLines}}

\* word_tf_in_line after lines 57-70 on a text given by token counts
CountsTfInLine(lines) ==
    [w \in {<<"a">>, <<"b">>} |->
        [j \in 1..Len(lines) |->
            [num |-> IF w = <<"a">> THEN lines[j].a ELSE lines[j].size - lines[j].a,
             den |-> lines[j].size]]]

LongInit ==
    \E t \in LongTexts :
        LET b == IndexOf(t, << <<"a">>, <<"b">> >>, {}, CountsTfInLine(t), 0)
        IN  /\ built = "counts"
            /\ text = t
            /\ lines_ = b.lines_
            /\ text_words_ = b.text_words_
            /\ ignore_list_ = b.ignore_list_
            /\ words_relevance_in_lines_ = b.words_relevance_in_lines_
            /\ oob = b.oob
            /\ op = "BuildIndex"
            /\ query = <<>>
            /\ results_count = 0
            /\ lines_relevance = <<>>
            /\ result = <<>>

\* the engine on the texts of Spec and on the texts with long lines
SpecLong == (Init \/ LongInit) /\ [][Next]_vars

----------------------------------------------------------------------------
(* The claims.                                                             *)

\* the entries of lines_relevance that Search returned, in order
Returned == SubSeq(lines_relevance, 1, Len(result))

\* the word tokens of two queries are pairwise equal up to letter case
SameWordsUpToCase(q1, q2) ==
    LET w1 == GetWordsFromStringView(q1)
        w2 == GetWordsFromStringView(q2)
    IN  Len(w1) = Len(w2) /\ \A i \in 1..Len(w1) : Equiv(w1[i], w2[i])

\* C1: two successive Searches on the same index, with the same top_k and
\* queries whose word tokens are pairwise equal up to letter case, return the
\* same sequence (stated for Searches that use no out-of-range index, so that
\* both results are determined by the index).
C1_CaseInsensitiveQuery ==
    [][(/\ op = "Search" /\ op' = "Search"
        /\ oob = {} /\ oob' = {}
        /\ results_count' = results_count
        /\ SameWordsUpToCase(query, query'))
       => result' = result]_vars

\* two scores differ by less than the tolerance
Near(x, y) == Abs(x.relevance - y.relevance) < ERROR

\* the ranking rule for a line x returned before a line y
RankedBefore(x, y) ==
    IF Near(x, y) THEN x.pos < y.pos ELSE x.relevance > y.relevance

\* "within the tolerance" is transitive on the scores of the scored lines
ToleranceTransitive(v) ==
    \A i, j, k \in 1..Len(v) : Near(v[i], v[j]) /\ Near(v[j], v[k]) => Near(v[i], v[k])

\* C2 as stated: of any two returned lines, the one returned first has the
\* smaller position when the scores differ by less than the tolerance, and the
\* larger score otherwise, whatever the scores are.
C2_RankedPairwise ==
    op = "Search" =>
        \A i, j \in 1..Len(Returned) : i < j => RankedBefore(Returned[i], Returned[j])

\* C2 amended: the same, for every combination of scores on which "differ by
\* less than the tolerance" is transitive.
C2_RankedPairwiseWhenTransitive ==
    (op = "Search" /\ ToleranceTransitive(lines_relevance)) =>
        \A i, j \in 1..Len(Returned) : i < j => RankedBefore(Returned[i], Returned[j])

\* a Search that returned two lines whose scores differ by less than the
\* tolerance, the later line having the larger score, on scores whose
\* tolerance relation is transitive and holds between some lines and not
\* between others
C2_Witness ==
    /\ op = "Search"
    /\ ToleranceTransitive(lines_relevance)
    /\ Len(result) = 2
    /\ Returned[1].relevance < Returned[2].relevance
    /\ Near(Returned[1], Returned[2])
    /\ \E i, j \in 1..Len(lines_relevance) :
          ~Near(lines_relevance[i], lines_relevance[j])

\* C3: the result is no longer than top_k and than the number P of lines with
\* a strictly positive score, every returned line has a strictly positive
\* score, and when P < top_k exactly the P positive-score lines are returned.
C3_TruncationByScore ==
    op = "Search" =>
        LET P == Cardinality({i \in 1..Len(lines_relevance) :
                                 lines_relevance[i].relevance > 0})
        IN  /\ Len(result) <= results_count
            /\ Len(result) <= P
            /\ \A i \in 1..Len(Returned) : Returned[i].relevance > 0
            /\ P < results_count => Len(result) = P

\* C4: a line of the index with no alphabetic token is not in the result of
\* any Search.
C4_NoIgnoredLineReturned ==
    op = "Search" =>
        \A p \in 1..Len(lines_) :
            GetWordsFromStringView(lines_[p]) = <<>> => lines_[p] \notin Range(result)

\* a Search that returned a line, on an index that holds a line with no
\* alphabetic token
C4_Witness ==
    /\ op = "Search"
    /\ built = "text"
    /\ result # <<>>
    /\ \E p \in 1..Len(lines_) : GetWordsFromStringView(lines_[p]) = <<>>

\* C5: what a Search returns is determined by the text last built: a Search
\* repeated with the same arguments returns the same sequence, and BuildIndex
\* called again with the text of the index changes the result of no Search.
C5_ResultsDependOnTextOnly ==
    [][/\ (/\ op = "Search" /\ op' = "Search"
           /\ query' = query /\ results_count' = results_count)
          => result' = result
       /\ (built = "text" /\ op' = "BuildIndex" /\ text' = text)
          => \A q \in Queries : \A k \in 0..MaxTopK :
               \A before \in Search(lines_, ignore_list_,
                                    words_relevance_in_lines_, q, k) :
               \A after \in Search(lines_', ignore_list_',
                                   words_relevance_in_lines_', q, k) :
                   after.result = before.result]_vars

\* C6: after BuildIndex("") every Search returns the empty sequence.
C6_EmptyText ==
    (built = "text" /\ text = <<>> /\ op = "Search") => result = <<>>

\* a Search for a word, with top_k > 0, on the index of the empty text
C6_Witness ==
    /\ built = "text" /\ text = <<>> /\ op = "Search"
    /\ query = <<"a">> /\ results_count = MaxTopK
    /\ lines_ # <<>>

\* the number of tokens of line p (zero-based)
LineSize(p) ==
    IF built = "counts" THEN lines_[p + 1].size
    ELSE Len(GetWordsFromStringView(lines_[p + 1]))

\* the number of tokens of line p (zero-based) equal, up to case, to the word
CountIn(p, word) ==
    IF built = "counts"
    THEN IF Equiv(word, <<"a">>) THEN lines_[p + 1].a
         ELSE IF Equiv(word, <<"b">>) THEN lines_[p + 1].size - lines_[p + 1].a
         ELSE 0
    ELSE LET tokens == GetWordsFromStringView(lines_[p + 1])
         IN  Cardinality({k \in 1..Len(tokens) : Equiv(tokens[k], word)})

\* the fraction of the tokens of line p equal to the word is larger than that
\* of line r
LargerFraction(p, r, word) ==
    CountIn(p, word) * LineSize(r) > CountIn(r, word) * LineSize(p)

\* TF * IDF of the word in line p, from the token counts of the lines
FractionScore(p, word) ==
    LET df == Cardinality({r \in 0..(Len(lines_) - 1) : CountIn(r, word) > 0})
    IN  Times([num |-> CountIn(p, word), den |-> LineSize(p)], log(Len(lines_), df))

\* "cat cat cat" and "cat sat"
CatCatCat == <<"c", "a", "t", " ", "c", "a", "t", " ", "c", "a", "t">>
CatSat == <<"c", "a", "t", " ", "s", "a", "t">>

\* a Search with a query of one word that occurs in some but not all lines, on
\* a text with no ignored line
OneWordQuery ==
    /\ op = "Search" /\ built # "no"
    /\ \A p \in 0..(Len(lines_) - 1) : LineSize(p) > 0
    /\ Len(GetWordsFromStringView(query)) = 1
    /\ \E p \in 0..(Len(lines_) - 1) : CountIn(p, GetWordsFromStringView(query)[1]) > 0
    /\ \E p \in 0..(Len(lines_) - 1) : CountIn(p, GetWordsFromStringView(query)[1]) = 0

\* the Search of the example returned "cat cat cat", "cat sat"
ExampleResult ==
    (/\ op = "Search" /\ built = "text" /\ text = ExampleText
     /\ query = <<"c", "a", "t">> /\ results_count = 2)
    => result = <<CatCatCat, CatSat>>

\* C7 as stated: on a text with no ignored line, for a query of one word that
\* occurs in some but not all lines, every returned line contains the word, and
\* a line with a larger fraction of its tokens equal to the word than a
\* returned line is returned before it; the example text, "cat" and top_k = 2
\* give exactly "cat cat cat", "cat sat".
C7_RankingByTermFrequency ==
    /\ OneWordQuery
       => LET word == GetWordsFromStringView(query)[1]
          IN  \A i \in 1..Len(Returned) :
                /\ CountIn(Returned[i].pos, word) > 0
                /\ \A p \in 0..(Len(lines_) - 1) :
                      LargerFraction(p, Returned[i].pos, word)
                      => \E h \in 1..(i - 1) : Returned[h].pos = p
    /\ ExampleResult

\* the TF * IDF of two lines that hold the word in different fractions of
\* their tokens differ by the tolerance or more
FractionsApart(word) ==
    \A p, r \in 0..(Len(lines_) - 1) :
        LargerFraction(p, r, word)
        => FractionScore(p, word) - FractionScore(r, word) >= ERROR

\* C7 amended: the same, on a text where the TF * IDF of two lines that hold
\* the word in different fractions differ by the tolerance or more.
C7_RankingByTermFrequencyBeyondTolerance ==
    /\ (OneWordQuery /\ FractionsApart(GetWordsFromStringView(query)[1]))
       => LET word == GetWordsFromStringView(query)[1]
          IN  \A i \in 1..Len(Returned) :
                /\ CountIn(Returned[i].pos, word) > 0
                /\ \A p \in 0..(Len(lines_) - 1) :
                      LargerFraction(p, Returned[i].pos, word)
                      => \E h \in 1..(i - 1) : Returned[h].pos = p
    /\ ExampleResult

\* the Search of the example, and it returned two lines with different
\* fractions of the word
C7_Witness ==
    /\ OneWordQuery /\ built = "text" /\ text = ExampleText
    /\ query = <<"c", "a", "t">> /\ results_count = 2
    /\ FractionsApart(<<"c", "a", "t">>)
    /\ ignore_list_ = {}
    /\ Len(result) = 2
    /\ LargerFraction(Returned[1].pos, Returned[2].pos, <<"c", "a", "t">>)

\* C8: no call indexes a per-word vector with an index that is not below the
\* vector's size.
C8_NoOutOfRangeIndex == oob = {}

\* TF(w, i) * IDF(w) of line i (zero-based) of the index, 0 for an ignored line
TfIdf(w, i) ==
    LET words_in_lines == [p \in 1..Len(lines_) |-> GetWordsFromStringView(lines_[p])]
        ignore == IgnoreList(words_in_lines)
        idf == WordIdf(WordTfInLine(words_in_lines, ignore, text_words_), Len(lines_))
    IN  IF words_in_lines[i + 1] = <<>> THEN 0
        ELSE Times(GetTFOfWordsInLine(words_in_lines[i + 1], text_words_)[w], idf[w])

\* C9: for every vocabulary word the relevance table holds one entry per line
\* of the index, the entry at position i being TF(w, i) * IDF(w) of line i and
\* 0 for an ignored line.
C9_RelevanceTableAligned ==
    built = "text" =>
        \A w \in Range(text_words_) :
            /\ w \in DOMAIN words_relevance_in_lines_
            /\ Len(words_relevance_in_lines_[w]) = Len(lines_)
            /\ \A i \in 0..(Len(lines_) - 1) :
                  words_relevance_in_lines_[w][i + 1] = TfIdf(w, i)

\* the maximal newline-free non-empty segments of a text, in order
Segments(txt) ==
    LET starts == {i \in 1..Len(txt) :
                      txt[i] # "\n" /\ (i = 1 \/ txt[i - 1] = "\n")}
        stop(i) == CHOOSE e \in i..Len(txt) :
                      /\ \A k \in i..e : txt[k] # "\n"
                      /\ e = Len(txt) \/ txt[e + 1] = "\n"
    IN  [j \in 1..Cardinality(starts) |->
            LET i == CHOOSE b \in starts : Cardinality({c \in starts : c < b}) = j - 1
            IN  SubSeq(txt, i, stop(i))]

\* C10: the lines of the index are the maximal non-empty newline-free segments
\* of the text, in order; none is empty, and the empty text gives no line.
C10_LinesAreSegments ==
    built = "text" =>
        /\ lines_ = Segments(text)
        /\ \A p \in 1..Len(lines_) : lines_[p] # <<>>
        /\ text = <<>> => lines_ = <<>>

=============================================================================
